---- MODULE Spec2Model ----
(***************************************************************************)
(* A model of pywebio/output.py: the output API that assembles "output"    *)
(* and "output_ctl" instructions and hands them to a session's outbound    *)
(* message queue.                                                          *)
(*                                                                         *)
(* Python values are represented as follows.                               *)
(*   - None is the empty tuple <<>>, a supplied value x is <<x>>.          *)
(*   - An anchor name, a title, a file name is a TLA+ string.              *)
(*   - A text (text/html/markdown content, a table cell, a mapping key)    *)
(*     is a sequence of one-character strings.                             *)
(*   - bytes are sequences of numbers in 0..255.                           *)
(***************************************************************************)
EXTENDS Integers, Sequences, FiniteSets, TLC

VARIABLES
    active_ws,   \* Global.active_ws: the currently active session
    msgs,        \* per session, its outbound message queue
    callbacks,   \* the callback registry: what output_register_callback was given
    held,        \* the list object the caller holds and passes to put_table
    last,        \* the last API call: operation, arguments, outcome
    ncalls       \* number of API calls made so far

vars == <<active_ws, msgs, callbacks, held, last, ncalls>>

\* ------------------------------------------------------------------ bounds
MaxCalls == 2        \* calls in one run of the dispatch specification
MaxTableCalls == 2   \* calls of put_table on the same caller-held list
MaxMdLen == 5        \* characters of a markdown content
MaxIndent == 2       \* largest strip_indent
MaxButtons == 2      \* descriptors in one buttons argument
MaxRows == 2         \* rows of a table
MaxCols == 2         \* cells of a list row

\* ------------------------------------------------------------ Python values
None == <<>>
Some(x) == <<x>>

\* Truth value of an optional string argument: None and '' are falsy.
Truthy(o) == o # None /\ o[1] # ""

\* Truth value of an optional sequence argument: None and [] are falsy.
TruthySeq(o) == o # None /\ Len(o[1]) > 0

Sessions == {"s1", "s2"}

RECURSIVE Join(_, _)
\* sep.join(parts) for texts
Join(sep, parts) ==
    IF Len(parts) = 0 THEN <<>>
    ELSE IF Len(parts) = 1 THEN parts[1]
    ELSE parts[1] \o sep \o Join(sep, Tail(parts))

\* ------------------------------------------------------- boundary (not in src)
\* session.add_server_msg(msg): the session's outbound queue takes the message.
AddServerMsg(q, ws, msg) == [q EXCEPT ![ws] = Append(@, msg)]

\* io_ctrl.send_msg(cmd, spec): wraps the spec and hands it to the active session.
SendMsg(cmd, spec) ==
    msgs' = AddServerMsg(msgs, active_ws, [command |-> cmd, spec |-> spec])

\* io_ctrl.output_register_callback(onclick, save, mutex_mode): the identifier
\* the registry returns for its next registration.
CallbackId(reg) == "cb" \o ToString(Len(reg) + 1)

RegisterCallback(reg, onclick, save, mutex_mode) ==
    Append(reg, [onclick |-> onclick, save |-> save, mutex_mode |-> mutex_mode])

\* ------------------------------------------------------------------ anchors
\* Mutant: the name is sent as it is.
AnchorTPL_Unprefixed(name) == name

AnchorTPL(name) == "pywebio-anchor-" \o name

\* Every control operation: one send_msg('output_ctl', spec), nothing else.
OutputCtl(op, args, spec) ==
    /\ SendMsg("output_ctl", spec)
    /\ last' = [op |-> op, result |-> "ok", args |-> args]
    /\ ncalls' = ncalls + 1
    /\ UNCHANGED <<active_ws, callbacks, held>>

set_title(title) ==
    OutputCtl("set_title", [title |-> title], [title |-> title])

set_output_fixed_height(enabled) ==
    OutputCtl("set_output_fixed_height", [enabled |-> enabled],
              [output_fixed_height |-> enabled])

set_auto_scroll_bottom(enabled) ==
    OutputCtl("set_auto_scroll_bottom", [enabled |-> enabled],
              [auto_scroll_bottom |-> enabled])

set_anchor(name) ==
    OutputCtl("set_anchor", [name |-> name], [set_anchor |-> AnchorTPL(name)])

clear_before(anchor) ==
    OutputCtl("clear_before", [anchor |-> anchor], [clear_before |-> AnchorTPL(anchor)])

clear_after(anchor) ==
    OutputCtl("clear_after", [anchor |-> anchor], [clear_after |-> AnchorTPL(anchor)])

clear_range(start_anchor, end_anchor) ==
    OutputCtl("clear_range", [start_anchor |-> start_anchor, end_anchor |-> end_anchor],
              [clear_range |-> << "pywebio-anchor-" \o start_anchor,
                                  "pywebio-anchor-" \o end_anchor >>])

scroll_to(anchor) ==
    OutputCtl("scroll_to", [anchor |-> anchor],
              [scroll_to |-> "pywebio-anchor-" \o anchor])

\* ------------------------------------------------------------- _put_content
\* Mutant: nothing is asserted.
BeforeAfterOk_Missing(before, after) == TRUE

\* The assertion every content operation starts with.
BeforeAfterOk(before, after) == ~(Truthy(before) /\ Truthy(after))

\* The instruction: dict(type=type), updated with other_spec, then the tagged
\* anchor, and the tagged before or else the tagged after.
BuildSpec(type, anchor, before, after, other_spec) ==
    LET s0 == other_spec @@ [type |-> type]
        s1 == IF Truthy(anchor) THEN ("anchor" :> AnchorTPL(anchor[1])) @@ s0 ELSE s0
    IN  IF Truthy(before) THEN ("before" :> AnchorTPL(before[1])) @@ s1
        ELSE IF Truthy(after) THEN ("after" :> AnchorTPL(after[1])) @@ s1
        ELSE s1

\* Mutant: the handle given is ignored.
Target_ActiveOnly(ws) == active_ws

\* (ws or Global.active_ws): session handles are objects, hence truthy.
Target(ws) == IF ws # None THEN ws[1] ELSE active_ws

\* Mutant: the envelope is handed over before the assertion is made.
PutContent_DispatchFirst(op, args, type, ws, anchor, before, after, other_spec, reg) ==
    /\ msgs' = AddServerMsg(msgs, Target(ws),
                   [command |-> "output",
                    spec |-> BuildSpec(type, anchor, before, after, other_spec)])
    /\ last' = [op |-> op, args |-> args,
                result |-> IF BeforeAfterOk(before, after) THEN "ok" ELSE "AssertionError"]
    /\ callbacks' = reg
    /\ ncalls' = ncalls + 1
    /\ UNCHANGED active_ws

\* _put_content as a step of the caller `op`: the assertion, then one envelope
\* to the target session.  `reg` is the callback registry as the caller left it.
PutContent(op, args, type, ws, anchor, before, after, other_spec, reg) ==
    /\ IF BeforeAfterOk(before, after)
       THEN /\ msgs' = AddServerMsg(msgs, Target(ws),
                          [command |-> "output",
                           spec |-> BuildSpec(type, anchor, before, after, other_spec)])
            /\ last' = [op |-> op, result |-> "ok", args |-> args]
       ELSE /\ msgs' = msgs
            /\ last' = [op |-> op, result |-> "AssertionError", args |-> args]
    /\ callbacks' = reg
    /\ ncalls' = ncalls + 1
    /\ UNCHANGED active_ws

\* A call that raised before reaching _put_content.
Raise(op, args, error) ==
    /\ last' = [op |-> op, result |-> error, args |-> args]
    /\ ncalls' = ncalls + 1
    /\ UNCHANGED <<active_ws, msgs, callbacks>>

Pos(ws, anchor, before, after) ==
    [ws |-> ws, anchor |-> anchor, before |-> before, after |-> after]

\* A direct call of the shared step, the one place a session handle is passed.
put_content(type, ws, anchor, before, after, content) ==
    /\ PutContent("_put_content",
                  [type |-> type, content |-> content] @@ Pos(ws, anchor, before, after),
                  type, ws, anchor, before, after, [content |-> content], callbacks)
    /\ UNCHANGED held

put_text(text, inline, anchor, before, after) ==
    /\ PutContent("put_text",
                  [text |-> text, inline |-> inline] @@ Pos(None, anchor, before, after),
                  "text", None, anchor, before, after,
                  [content |-> text, inline |-> inline], callbacks)
    /\ UNCHANGED held

put_html(html, anchor, before, after) ==
    /\ PutContent("put_html", [html |-> html] @@ Pos(None, anchor, before, after),
                  "html", None, anchor, before, after, [content |-> html], callbacks)
    /\ UNCHANGED held

\* ------------------------------------------------------------- put_markdown
\* The line boundaries of str.splitlines() that the model's texts can hold.
LineBreaks == {"\n", "\r"}

\* The characters str.lstrip() removes that the model's texts can hold.
Whitespace == {" ", "\t", "\n", "\r", "\f"}

RECURSIVE SplitFrom(_, _, _)
\* The lines of s from position i on, the current line having begun at `start`.
\* "\r\n" is one boundary; what follows the last boundary is a line only if it
\* is not empty.
SplitFrom(s, i, start) ==
    IF i > Len(s)
    THEN IF start <= Len(s) THEN << SubSeq(s, start, Len(s)) >> ELSE << >>
    ELSE IF s[i] \in LineBreaks
         THEN LET next == IF s[i] = "\r" /\ i < Len(s) /\ s[i + 1] = "\n"
                          THEN i + 2 ELSE i + 1
              IN  << SubSeq(s, start, i - 1) >> \o SplitFrom(s, next, next)
         ELSE SplitFrom(s, i + 1, start)

\* str.splitlines()
SplitLines(s) == SplitFrom(s, 1, 1)

\* ' ' * n
Spaces(n) == [j \in 1..n |-> " "]

\* Mutant: the first characters are cut whatever they are.
StripIndentLine_Unchecked(i, strip_indent) == SubSeq(i, strip_indent + 1, Len(i))

\* i[strip_indent:] if (i[:strip_indent] == ' ' * strip_indent) else i
StripIndentLine(i, strip_indent) ==
    IF SubSeq(i, 1, IF strip_indent < Len(i) THEN strip_indent ELSE Len(i))
         = Spaces(strip_indent)
    THEN SubSeq(i, strip_indent + 1, Len(i))
    ELSE i

RECURSIVE LStrip(_)
\* str.lstrip()
LStrip(i) == IF Len(i) > 0 /\ i[1] \in Whitespace THEN LStrip(Tail(i)) ELSE i

\* The content put_markdown emits (lines 188-196).
MdContent(mdcontent, strip_indent, lstrip) ==
    LET split1 == SplitLines(mdcontent)
        c1 == IF strip_indent # 0
              THEN Join(<<"\n">>, [j \in 1..Len(split1) |->
                                      StripIndentLine(split1[j], strip_indent)])
              ELSE mdcontent
        split2 == SplitLines(c1)
    IN  IF lstrip
        THEN Join(<<"\n">>, [j \in 1..Len(split2) |-> LStrip(split2[j])])
        ELSE c1

\* put_markdown as a step of the caller `op` (put_markdown itself, put_code,
\* put_table).
Markdown(op, args, mdcontent, strip_indent, lstrip, anchor, before, after) ==
    PutContent(op, args, "markdown", None, anchor, before, after,
               [content |-> MdContent(mdcontent, strip_indent, lstrip)], callbacks)

put_markdown(mdcontent, strip_indent, lstrip, anchor, before, after) ==
    /\ Markdown("put_markdown",
                [mdcontent |-> mdcontent, strip_indent |-> strip_indent,
                 lstrip |-> lstrip] @@ Pos(None, anchor, before, after),
                mdcontent, strip_indent, lstrip, anchor, before, after)
    /\ UNCHANGED held

\* The fenced block of put_code: fence, langage, newline, content, newline, fence.
\* The backquote character, which a TLA+ string cannot hold, is this symbol.
Backquote == "<backquote>"

Fence == <<Backquote, Backquote, Backquote>>

CodeBlock(content, langage) ==
    Fence \o langage \o <<"\n">> \o content \o <<"\n">> \o Fence

put_code(content, langage, anchor, before, after) ==
    /\ Markdown("put_code",
                [content |-> content, langage |-> langage]
                    @@ Pos(None, anchor, before, after),
                CodeBlock(content, langage), 0, FALSE, anchor, before, after)
    /\ UNCHANGED held

\* ---------------------------------------------------------------- put_table
\* A row of table data: a list of cells, a mapping (keys in the mapping's own
\* order, k[j] bound to c[j]), or a str, whose items are its characters.
ListRow(cells) == [c |-> cells, k |-> <<>>, t |-> "list"]
DictRow(keys, values) == [c |-> values, k |-> keys, t |-> "dict"]
StrRow(chars) == [c |-> [j \in 1..Len(chars) |-> <<chars[j]>>], k |-> <<>>, t |-> "str"]

\* What iterating over a row yields: a mapping yields its keys.
Items(row) == IF row.t = "dict" THEN row.k ELSE row.c

RowLen(row) == Len(Items(row))

\* row.get(key, '')
Get(row, key) ==
    IF \E j \in 1..Len(row.k) : row.k[j] = key
    THEN row.c[CHOOSE j \in 1..Len(row.k) : row.k[j] = key]
    ELSE <<>>

\* Mutant: each mapping's values in the mapping's own key order.
Project_OwnOrder(tdata, header) == [i \in 1..Len(tdata) |-> ListRow(tdata[i].c)]

\* [[row.get(k, '') for k in header] for row in tdata]
Project(tdata, header) ==
    [i \in 1..Len(tdata) |->
        ListRow([j \in 1..Len(header) |-> Get(tdata[i], header[j])])]

RECURSIVE Quote(_)
\* str(data).replace('|', r'\|')
Quote(data) ==
    IF Len(data) = 0 THEN <<>>
    ELSE (IF data[1] = "|" THEN <<"\\", "|">> ELSE <<data[1]>>) \o Quote(Tail(data))

\* "|%s|" % "|".join(cells)
PipeLine(cells) == <<"|">> \o Join(<<"|">>, cells) \o <<"|">>

\* tdata[0:0] = [' '] * len(tdata[0]), done when tdata has exactly one row:
\* the slice assignment inserts len(tdata[0]) items, each the str ' '.
PadSingleRow(tdata) ==
    IF Len(tdata) = 1
    THEN [j \in 1..RowLen(tdata[1]) |-> StrRow(<<" ">>)] \o tdata
    ELSE tdata

\* The Markdown source of lines 222-227, for a table of at least one row.
TableSource(tdata) ==
    LET QuoteRow(row) == PipeLine([j \in 1..RowLen(row) |-> Quote(Items(row)[j])])
        sep == PipeLine([j \in 1..RowLen(tdata[1]) |-> <<"-", "-", "-", "-">>])
    IN  Join(<<"\n">>,
             <<QuoteRow(tdata[1]), sep>>
                 \o [i \in 1..(Len(tdata) - 1) |-> QuoteRow(tdata[i + 1])])

\* put_table on the list the caller holds.  With a header the rows are
\* projected into a new list; without one the local name is the caller's list,
\* which the padding of a single row then changes.
put_table(header, anchor, before, after) ==
    LET hd == TruthySeq(header)
        args(local) == [tdata |-> held, header |-> header, projected |-> local]
                           @@ Pos(None, anchor, before, after)
    IN  IF hd /\ \E i \in 1..Len(held) : held[i].t # "dict"
        THEN Raise("put_table", args(held), "AttributeError") /\ UNCHANGED held
        ELSE LET local == IF hd THEN Project(held, header[1]) ELSE held
                 padded == PadSingleRow(local)
             IN  /\ held' = IF hd THEN held ELSE padded
                 /\ IF Len(padded) = 0
                    THEN Raise("put_table", args(local), "IndexError")
                    ELSE Markdown("put_table", args(local), TableSource(padded),
                                  0, FALSE, anchor, before, after)

\* ------------------------------------------------------------------ buttons
\* A Python object of a buttons argument: a scalar (v holds its one value), a
\* list or a tuple (v holds its items), a mapping (k[j] bound to v[j]).
Scalar(s) == [k |-> <<>>, t |-> "scalar", v |-> <<s>>]
List(items) == [k |-> <<>>, t |-> "list", v |-> items]
Tuple(items) == [k |-> <<>>, t |-> "tuple", v |-> items]
Dict(keys, values) == [k |-> keys, t |-> "dict", v |-> values]

HasKey(d, key) == \E j \in 1..Len(d.k) : d.k[j] = key

Value(d, key) == d.v[CHOOSE j \in 1..Len(d.k) : d.k[j] = key]

\* The two assertions of _format_button; nothing is asserted of a descriptor
\* that is neither a Mapping nor a list.
ButtonOk(btn) ==
    IF btn.t = "dict" THEN HasKey(btn, "value") /\ HasKey(btn, "label")
    ELSE IF btn.t = "list" THEN Len(btn.v) = 2
    ELSE TRUE

\* One descriptor as _format_button appends it.
FormatOne(btn) ==
    IF btn.t = "dict" THEN btn
    ELSE IF btn.t = "list" THEN Dict(<<"value", "label">>, btn.v)
    ELSE Dict(<<"value", "label">>, <<btn, btn>>)

\* _format_button: the list of records, or the assertion error.
FormatButton(buttons) ==
    IF \A j \in 1..Len(buttons) : ButtonOk(buttons[j])
    THEN [ok |-> TRUE, btns |-> [j \in 1..Len(buttons) |-> FormatOne(buttons[j])]]
    ELSE [ok |-> FALSE, btns |-> <<>>]

RECURSIVE JoinStr(_, _)
\* sep.join(parts) for strings
JoinStr(sep, parts) ==
    IF Len(parts) = 0 THEN ""
    ELSE IF Len(parts) = 1 THEN parts[1]
    ELSE parts[1] \o sep \o JoinStr(sep, Tail(parts))

\* str(obj) of a scalar or of a tuple of scalars
PyStr(obj) ==
    IF obj.t = "scalar" THEN obj.v[1]
    ELSE "(" \o JoinStr(", ", [j \in 1..Len(obj.v) |-> "'" \o obj.v[j].v[1] \o "'"])
             \o (IF Len(obj.v) = 1 THEN ",)" ELSE ")")

\* tpl.format(**b)
ButtonHtml(b, callback_id) ==
    "<button type=\"button\" value=\"" \o PyStr(Value(b, "value"))
        \o "\" class=\"btn btn-primary btn-sm\" "
        \o "onclick=\"WebIO.DisplayAreaButtonOnClick(this, '" \o callback_id \o "')\">"
        \o PyStr(Value(b, "label")) \o "</button>"

td_buttons(buttons, onclick, save, mutex_mode) ==
    LET args == [buttons |-> buttons, onclick |-> onclick, save |-> save,
                 mutex_mode |-> mutex_mode]
        f == FormatButton(buttons)
    IN  /\ IF f.ok
           THEN /\ callbacks' = RegisterCallback(callbacks, onclick, save, mutex_mode)
                /\ last' = [op |-> "td_buttons", result |-> "ok", args |-> args,
                            ret |-> JoinStr(" ", [j \in 1..Len(f.btns) |->
                                       ButtonHtml(f.btns[j], CallbackId(callbacks))])]
           ELSE /\ callbacks' = callbacks
                /\ last' = [op |-> "td_buttons", result |-> "AssertionError",
                            args |-> args]
        /\ ncalls' = ncalls + 1
        /\ UNCHANGED <<active_ws, msgs, held>>

put_buttons(buttons, onclick, small, save, mutex_mode, anchor, before, after) ==
    LET args == [buttons |-> buttons, onclick |-> onclick, small |-> small,
                 save |-> save, mutex_mode |-> mutex_mode]
                    @@ Pos(None, anchor, before, after)
        f == FormatButton(buttons)
    IN  /\ IF BeforeAfterOk(before, after) /\ f.ok
           THEN PutContent("put_buttons", args, "buttons", None, anchor, before, after,
                           [callback_id |-> CallbackId(callbacks), buttons |-> f.btns,
                            small |-> small],
                           RegisterCallback(callbacks, onclick, save, mutex_mode))
           ELSE Raise("put_buttons", args, "AssertionError")
        /\ UNCHANGED held

\* ----------------------------------------------------------------- put_file
B64Alphabet ==
    << "A", "B", "C", "D", "E", "F", "G", "H", "I", "J", "K", "L", "M", "N", "O", "P",
       "Q", "R", "S", "T", "U", "V", "W", "X", "Y", "Z", "a", "b", "c", "d", "e", "f",
       "g", "h", "i", "j", "k", "l", "m", "n", "o", "p", "q", "r", "s", "t", "u", "v",
       "w", "x", "y", "z", "0", "1", "2", "3", "4", "5", "6", "7", "8", "9", "+", "/" >>

B64Char(n) == B64Alphabet[n + 1]

RECURSIVE B64Encode(_)
\* base64.b64encode(content).decode('ascii')
B64Encode(b) ==
    IF Len(b) = 0 THEN <<>>
    ELSE IF Len(b) = 1
    THEN << B64Char(b[1] \div 4), B64Char((b[1] % 4) * 16), "=", "=" >>
    ELSE IF Len(b) = 2
    THEN << B64Char(b[1] \div 4), B64Char((b[1] % 4) * 16 + b[2] \div 16),
            B64Char((b[2] % 16) * 4), "=" >>
    ELSE << B64Char(b[1] \div 4), B64Char((b[1] % 4) * 16 + b[2] \div 16),
            B64Char((b[2] % 16) * 4 + b[3] \div 64), B64Char(b[3] % 64) >>
            \o B64Encode(SubSeq(b, 4, Len(b)))

put_file(name, content, anchor, before, after) ==
    LET args == [name |-> name, content |-> content] @@ Pos(None, anchor, before, after)
    IN  /\ IF BeforeAfterOk(before, after)
           THEN PutContent("put_file", args, "file", None, anchor, before, after,
                           [name |-> name, content |-> B64Encode(content)], callbacks)
           ELSE Raise("put_file", args, "AssertionError")
        /\ UNCHANGED held

\* ------------------------------------------------------------- environment
\* The framework makes another session the active one.
SetActive(s) ==
    /\ s # active_ws
    /\ active_ws' = s
    /\ UNCHANGED <<msgs, callbacks, held, last, ncalls>>

\* ------------------------------------------------------------------ inputs
\* An optional anchor name: absent, the empty name, a name.
OptName == {None, Some(""), Some("a")}

\* (anchor, before, after) of a content call
AllPos == OptName \X OptName \X OptName

\* The positional arguments the operations other than put_text are called with.
FewPos ==
    { <<None, None, None>>, <<Some("a"), None, Some("a")>>, <<None, Some("a"), Some("a")>> }

SomeText == <<"h", "i">>

SomeMarkdown == <<" ", " ", "#", "\n", " ", "x">>

\* The characters a markdown content is drawn from.
MdChars == {" ", "\t", "#", "\n", "\r"}

MdTexts == UNION { [1..n -> MdChars] : n \in 0..MaxMdLen }

\* Table cells and mapping keys.
Cells == { <<"x">>, <<"|">> }

KeyA == <<"a">>
KeyB == <<"b">>

KeySeqs == { <<>>, <<KeyA>>, <<KeyB>>, <<KeyA, KeyB>>, <<KeyB, KeyA>> }

ListRows == { ListRow(cs) : cs \in UNION { [1..n -> Cells] : n \in 0..MaxCols } }

DictRows == UNION { { DictRow(ks, vs) : vs \in [1..Len(ks) -> Cells] } : ks \in KeySeqs }

\* The lists a caller passes to put_table: rows that are all lists, or all
\* mappings.
TableInputs ==
    UNION { [1..n -> ListRows] : n \in 0..MaxRows }
        \cup UNION { [1..n -> DictRows] : n \in 0..MaxRows }

Headers == { None } \cup { Some(ks) : ks \in KeySeqs }

\* Button descriptors: scalars; lists and tuples of zero to three items;
\* mappings with and without the required keys.
ItemSeq == << Scalar("b"), Scalar("Bee"), Scalar("x") >>

KeyedValue(key) ==
    IF key = "value" THEN Scalar("c")
    ELSE IF key = "label" THEN Scalar("Cee")
    ELSE Scalar("yes")

ButtonKeys ==
    { <<>>, <<"value">>, <<"label">>, <<"value", "label">>, <<"label", "value">>,
      <<"value", "label", "disabled">> }

Descriptors ==
    { Scalar("a") }
        \cup { List(SubSeq(ItemSeq, 1, n)) : n \in 0..3 }
        \cup { Tuple(SubSeq(ItemSeq, 1, n)) : n \in 0..3 }
        \cup { Dict(ks, [j \in 1..Len(ks) |-> KeyedValue(ks[j])]) : ks \in ButtonKeys }

ButtonArgs == UNION { [1..n -> Descriptors] : n \in 0..MaxButtons }

SomeButtons == << Scalar("a"), List(SubSeq(ItemSeq, 1, 2)) >>

SomeTable == << ListRow(<< <<"x">>, <<"|">> >>), ListRow(<< <<"x">>, <<"x">> >>) >>

\* ----------------------------------------------------------- specifications
InitWith(active, tables) ==
    /\ active_ws \in active
    /\ msgs = [s \in Sessions |-> <<>>]
    /\ callbacks = <<>>
    /\ held \in tables
    /\ last = [op |-> "none", result |-> "ok", args |-> <<>>]
    /\ ncalls = 0

\* The dispatch machine: every operation, a few arguments each, several calls.
Init == InitWith(Sessions, {SomeTable})

Next ==
    \/ \E s \in Sessions : SetActive(s)
    \/ /\ ncalls < MaxCalls
       /\ \/ set_title("T")
          \/ \E e \in BOOLEAN : set_output_fixed_height(e)
          \/ \E e \in BOOLEAN : set_auto_scroll_bottom(e)
          \/ \E n \in {"", "a"} : set_anchor(n)
          \/ clear_before("a")
          \/ clear_after("a")
          \/ clear_range("a", "b")
          \/ scroll_to("a")
          \/ \E p \in AllPos : put_text(SomeText, FALSE, p[1], p[2], p[3])
          \/ \E p \in FewPos : put_html(SomeText, p[1], p[2], p[3])
          \/ \E p \in FewPos : put_markdown(SomeMarkdown, 2, FALSE, p[1], p[2], p[3])
          \/ \E p \in FewPos : put_code(SomeText, <<"p", "y">>, p[1], p[2], p[3])
          \/ \E p \in FewPos : put_table(None, p[1], p[2], p[3])
          \/ \E p \in FewPos :
                put_buttons(SomeButtons, "f", FALSE, None, FALSE, p[1], p[2], p[3])
          \/ td_buttons(SomeButtons, "f", None, FALSE)
          \/ \E p \in FewPos : put_file("f.txt", <<77, 97>>, p[1], p[2], p[3])
          \/ \E ws \in {None} \cup {Some(s) : s \in Sessions}, p \in FewPos :
                put_content("text", ws, p[1], p[2], p[3], SomeText)

Spec == Init /\ [][Next]_vars

\* put_markdown as a function of its content and options: one call, made
\* with s1 the active session.
NextMarkdown ==
    /\ ncalls = 0
    /\ \E md \in MdTexts, k \in 0..MaxIndent, ls \in BOOLEAN :
          put_markdown(md, k, ls, None, None, None)

InitOne == InitWith({"s1"}, {SomeTable})

SpecMarkdown == InitOne /\ [][NextMarkdown]_vars

\* put_table on every caller-held list, called again on the same list.
InitTable == InitWith({"s1"}, TableInputs)

NextTable ==
    /\ ncalls < MaxTableCalls
    /\ \E h \in Headers : put_table(h, None, None, None)

SpecTable == InitTable /\ [][NextTable]_vars

\* put_buttons and td_buttons on every button argument: one call.
NextButtons ==
    /\ ncalls = 0
    /\ \/ \E b \in ButtonArgs, p \in FewPos :
             put_buttons(b, "f", FALSE, None, FALSE, p[1], p[2], p[3])
       \/ \E b \in ButtonArgs : td_buttons(b, "f", None, FALSE)

SpecButtons == InitOne /\ [][NextButtons]_vars

\* ------------------------------------------------------------------- claims
\* The operations that take anchor, before and after.
ContentOps ==
    { "_put_content", "put_text", "put_html", "put_markdown", "put_code", "put_table",
      "put_buttons", "put_file" }

\* The environment and anchor operations.
ControlOps ==
    { "set_title", "set_output_fixed_height", "set_auto_scroll_bottom", "set_anchor",
      "clear_before", "clear_after", "clear_range", "scroll_to" }

ControlKeys ==
    { "title", "output_fixed_height", "auto_scroll_bottom", "set_anchor", "clear_before",
      "clear_after", "clear_range", "scroll_to" }

\* The step is a call of the API.
IsCall == ncalls' = ncalls + 1

\* The session a completed call was to address: the handle it was given, else
\* the session that was active when it was made.
Addressed ==
    IF last'.op \in ContentOps /\ last'.args.ws # None THEN last'.args.ws[1] ELSE active_ws

Final(q) == q[Len(q)]

NonEmpty(o) == o # None /\ o[1] # ""

C2_OneEnvelope ==
    [][ ( /\ IsCall
          /\ last'.result = "ok"
          /\ last'.op \in ContentOps \cup ControlOps )
        => /\ Len(msgs'[Addressed]) = Len(msgs[Addressed]) + 1
           /\ SubSeq(msgs'[Addressed], 1, Len(msgs[Addressed])) = msgs[Addressed]
           /\ \A s \in Sessions \ {Addressed} : msgs'[s] = msgs[s]
           /\ LET e == Final(msgs'[Addressed])
              IN  /\ DOMAIN e = {"command", "spec"}
                  /\ last'.op \in ContentOps => e.command = "output"
                  /\ last'.op \in ControlOps =>
                        /\ e.command = "output_ctl"
                        /\ Cardinality(DOMAIN e.spec) = 1
                        /\ DOMAIN e.spec \subseteq ControlKeys ]_vars

\* C2's case: an envelope went to the handle given, which is not the active
\* session, while the active session holds a control envelope of its own.
C2_Witness ==
    \E s \in Sessions :
        /\ s # active_ws
        /\ last.op = "_put_content" /\ last.result = "ok" /\ last.args.ws = Some(s)
        /\ Len(msgs[s]) = 1 /\ msgs[s][1].command = "output"
        /\ Len(msgs[active_ws]) = 1 /\ msgs[active_ws][1].command = "output_ctl"

\* The type discriminator a content operation emits.
TypeOf(call) ==
    IF call.op = "_put_content" THEN call.args.type
    ELSE IF call.op = "put_text" THEN "text"
    ELSE IF call.op = "put_html" THEN "html"
    ELSE IF call.op = "put_buttons" THEN "buttons"
    ELSE IF call.op = "put_file" THEN "file"
    ELSE "markdown"

\* C3: every step leaves each queue as it was or puts one envelope at its end;
\* a completed content call puts its own envelope at the end of the queue of
\* the session it addresses, and a failed call changes no queue.  Hence a
\* queue holds the envelopes of the completed calls in the order of the calls.
C3_CallOrder ==
    [][ /\ \A s \in Sessions :
              \/ msgs'[s] = msgs[s]
              \/ /\ Len(msgs'[s]) = Len(msgs[s]) + 1
                 /\ SubSeq(msgs'[s], 1, Len(msgs[s])) = msgs[s]
                 /\ IsCall /\ last'.result = "ok" /\ s = Addressed
        /\ (IsCall /\ last'.result # "ok") => msgs' = msgs
        /\ (IsCall /\ last'.result = "ok" /\ last'.op \in ContentOps) =>
              /\ msgs'[Addressed] # msgs[Addressed]
              /\ Final(msgs'[Addressed]).spec.type = TypeOf(last')
              /\ last'.op = "put_text" =>
                    Final(msgs'[Addressed]).spec.content = last'.args.text ]_vars

\* C3's case: a queue holds the envelopes of two completed calls, the earlier
\* call's first.
C3_Witness ==
    /\ last.op = "put_markdown" /\ last.result = "ok"
    /\ Len(msgs[active_ws]) = 2
    /\ msgs[active_ws][1].command = "output" /\ msgs[active_ws][1].spec.type = "text"
    /\ msgs[active_ws][2].command = "output" /\ msgs[active_ws][2].spec.type = "markdown"

\* C4 as stated: an anchor name a caller supplies is sent as pywebio-anchor- followed by
\* the name, by the anchor operations and in the anchor, before and after of a
\* content operation, and is never left out.
C4_AnchorTagged ==
    [][ (IsCall /\ last'.result = "ok") =>
          LET a == last'.args
              e == Final(msgs'[Addressed]).spec
              Sent(o, key) ==
                  o # None => (key \in DOMAIN e /\ e[key] = "pywebio-anchor-" \o o[1])
          IN  /\ last'.op \in ContentOps =>
                    /\ Sent(a.anchor, "anchor")
                    /\ Sent(a.before, "before")
                    /\ Sent(a.after, "after")
              /\ last'.op = "set_anchor" => e.set_anchor = "pywebio-anchor-" \o a.name
              /\ last'.op = "clear_before" =>
                    e.clear_before = "pywebio-anchor-" \o a.anchor
              /\ last'.op = "clear_after" => e.clear_after = "pywebio-anchor-" \o a.anchor
              /\ last'.op = "scroll_to" => e.scroll_to = "pywebio-anchor-" \o a.anchor
              /\ last'.op = "clear_range" =>
                    e.clear_range = << "pywebio-anchor-" \o a.start_anchor,
                                       "pywebio-anchor-" \o a.end_anchor >> ]_vars

\* C4, amended: a non-empty anchor name is sent as pywebio-anchor- followed
\* by the name in the anchor, before and after of a completed content call; the
\* anchor operations send any name, the empty one too, in that form.
C4_NonEmptyAnchorTagged ==
    [][ (IsCall /\ last'.result = "ok") =>
          LET a == last'.args
              e == Final(msgs'[Addressed]).spec
              Sent(o, key) ==
                  NonEmpty(o) => (key \in DOMAIN e /\ e[key] = "pywebio-anchor-" \o o[1])
          IN  /\ last'.op \in ContentOps =>
                    /\ Sent(a.anchor, "anchor")
                    /\ Sent(a.before, "before")
                    /\ Sent(a.after, "after")
              /\ last'.op = "set_anchor" => e.set_anchor = "pywebio-anchor-" \o a.name
              /\ last'.op = "clear_before" =>
                    e.clear_before = "pywebio-anchor-" \o a.anchor
              /\ last'.op = "clear_after" => e.clear_after = "pywebio-anchor-" \o a.anchor
              /\ last'.op = "scroll_to" => e.scroll_to = "pywebio-anchor-" \o a.anchor
              /\ last'.op = "clear_range" =>
                    e.clear_range = << "pywebio-anchor-" \o a.start_anchor,
                                       "pywebio-anchor-" \o a.end_anchor >> ]_vars

\* C4's case: a text tagged with one anchor and placed after another has been
\* queued with both names in the tagged form.
C4_Witness ==
    /\ last.op = "put_text" /\ last.result = "ok"
    /\ last.args.anchor = Some("a") /\ last.args.after = Some("a")
    /\ \E s \in Sessions :
          /\ Len(msgs[s]) > 0
          /\ DOMAIN Final(msgs[s]).spec = {"type", "content", "inline", "anchor", "after"}
          /\ Final(msgs[s]).spec.anchor = "pywebio-anchor-a"
          /\ Final(msgs[s]).spec.after = "pywebio-anchor-a"

\* The content of the one envelope queued in a run of a single call.
Emitted == msgs[active_ws][1].spec.content

\* C5 as stated: put_table on one row of c cells emits three lines, a header of
\* c empty cells, a separator of c ---- cells and the row's cells.
C5_SingleRowThreeLines ==
    ( /\ last.op = "put_table" /\ last.result = "ok" /\ ncalls = 1
      /\ Len(last.args.projected) = 1
      /\ last.args.projected[1].t = "list"
      /\ Len(last.args.projected[1].c) > 0 )
    => LET row == last.args.projected[1].c
           c == Len(row)
           body == <<"|">> \o Join(<<"|">>, [j \in 1..c |-> Quote(row[j])]) \o <<"|">>
           sep == <<"|">> \o Join(<<"|">>, [j \in 1..c |-> <<"-", "-", "-", "-">>])
                      \o <<"|">>
           blank(cell) == <<"|">> \o Join(<<"|">>, [j \in 1..c |-> cell]) \o <<"|">>
       IN  \E header \in {blank(<<>>), blank(<<" ">>)} :
               Emitted = header \o <<"\n">> \o sep \o <<"\n">> \o body

\* The descriptor has one of the malformed shapes.
Malformed(btn) ==
    \/ btn.t = "dict" /\ ~({"value", "label"} \subseteq {btn.k[j] : j \in 1..Len(btn.k)})
    \/ btn.t \in {"list", "tuple"} /\ Len(btn.v) # 2

\* C6 as stated: the normalized list has the input's length and order; a
\* mapping with value and label is kept, a pair becomes {value, label}, a
\* scalar s becomes {value: s, label: s}.
C6_Normalized ==
    ( /\ last.op = "put_buttons" /\ last.result = "ok" /\ ncalls = 1 )
    => LET in == last.args.buttons
           out == msgs[active_ws][1].spec.buttons
       IN  /\ Len(out) = Len(in)
           /\ \A j \in 1..Len(in) :
                 /\ (in[j].t = "dict" /\ ~Malformed(in[j])) => out[j] = in[j]
                 /\ (in[j].t \in {"list", "tuple"} /\ Len(in[j].v) = 2) =>
                       out[j] = [k |-> <<"value", "label">>, t |-> "dict", v |-> in[j].v]
                 /\ in[j].t = "scalar" =>
                       out[j] = [k |-> <<"value", "label">>, t |-> "dict",
                                 v |-> <<in[j], in[j]>>]

\* C7 as stated: a call given a malformed descriptor fails with the assertion
\* error; no callback is registered and no envelope is queued.
C7_MalformedFails ==
    ( /\ last.op \in {"put_buttons", "td_buttons"} /\ ncalls = 1
      /\ \E j \in 1..Len(last.args.buttons) : Malformed(last.args.buttons[j]) )
    => /\ last.result = "AssertionError"
       /\ callbacks = <<>>
       /\ \A s \in Sessions : msgs[s] = <<>>

\* C10 as stated: after put_table the list the caller passed holds the rows it
\* held when it was passed.
C10_TableDataKept ==
    last.op = "put_table" => held = last.args.tdata

\* The lines of a text, stated by position: a line begins at the start of the
\* text and after every line boundary ("\r\n" being one boundary), and runs up
\* to the next boundary character.
LineStarts(s) ==
    { p \in 1..Len(s) :
        \/ p = 1
        \/ s[p - 1] = "\n"
        \/ s[p - 1] = "\r" /\ s[p] # "\n" }

LineAt(s, p) ==
    LET stop == { q \in p..Len(s) : s[q] \in {"\n", "\r"} }
        end == IF stop = {} THEN Len(s)
               ELSE (CHOOSE q \in stop : \A r \in stop : q <= r) - 1
    IN  SubSeq(s, p, end)

LinesOf(s) ==
    LET starts == LineStarts(s)
        nth(i) == CHOOSE p \in starts : Cardinality({q \in starts : q < p}) = i - 1
    IN  [i \in 1..Cardinality(starts) |-> LineAt(s, nth(i))]

\* The line without its first k characters when they are k spaces, else as is.
WithoutIndent(line, k) ==
    IF Len(line) >= k /\ \A j \in 1..k : line[j] = " "
    THEN [j \in 1..(Len(line) - k) |-> line[j + k]]
    ELSE line

\* The line from its first character that is not a space or a tab.
WithoutLeadingBlank(line) ==
    LET rest == { j \in 1..Len(line) : line[j] \notin {" ", "\t"} }
        first == IF rest = {} THEN Len(line) + 1
                 ELSE CHOOSE j \in rest : \A r \in rest : j <= r
    IN  [j \in 1..(Len(line) - first + 1) |-> line[j + first - 1]]

CellFor(row, key) ==
    LET at == { j \in 1..Len(row.k) : row.k[j] = key }
    IN  IF at = {} THEN <<>> ELSE row.c[CHOOSE j \in at : TRUE]

\* The rows are all mappings.
AllMappings(tdata) == \A i \in 1..Len(tdata) : tdata[i].t = "dict"

\* The rows put_table works on after line 213 are the projection of the
\* mappings passed: as many rows, in order, each a list of one cell per header
\* key, in header order.
ProjectedBy(header) ==
    /\ last.result # "AttributeError"
    /\ Len(last.args.projected) = Len(last.args.tdata)
    /\ \A i \in 1..Len(last.args.tdata) :
          /\ last.args.projected[i].t = "list"
          /\ Len(last.args.projected[i].c) = Len(header)
          /\ \A j \in 1..Len(header) :
                last.args.projected[i].c[j] = CellFor(last.args.tdata[i], header[j])

\* C9 as stated: given a header and mappings, put_table projects every mapping
\* onto the header keys.
C9_HeaderProjects ==
    ( /\ last.op = "put_table"
      /\ last.args.header # None
      /\ AllMappings(last.args.tdata) )
    => ProjectedBy(last.args.header[1])

\* C9, amended: given a header of at least one key and mappings, put_table
\* projects every mapping onto the header keys.
C9_NonEmptyHeaderProjects ==
    ( /\ last.op = "put_table"
      /\ last.args.header # None
      /\ Len(last.args.header[1]) > 0
      /\ AllMappings(last.args.tdata) )
    => ProjectedBy(last.args.header[1])

\* C9's case: two mappings with keys a, b have been projected by the header
\* b, a, and the table emitted holds their cells in header order.
C9_Witness ==
    /\ last.op = "put_table" /\ last.result = "ok" /\ ncalls = 1
    /\ last.args.header = Some(<<KeyB, KeyA>>)
    /\ last.args.tdata = << DictRow(<<KeyA, KeyB>>, << <<"x">>, <<"|">> >>),
                            DictRow(<<KeyB, KeyA>>, << <<"x">>, <<"|">> >>) >>
    /\ last.args.projected = << ListRow(<< <<"|">>, <<"x">> >>),
                                ListRow(<< <<"x">>, <<"|">> >>) >>
    /\ held = last.args.tdata

====
